---------------------------- MODULE Spec2Model ----------------------------
(***************************************************************************)
(* A model of the scheduling core in src/scheduler.py.                     *)
(*                                                                         *)
(* Reading of the source.  scheduler.py refers to several names that are   *)
(* bound nowhere.  Where such a name stands on the only path into an       *)
(* operation, so that taken literally the operation could never perform    *)
(* its first effect, it is read as the binding its parameters and callers  *)
(* fix:                                                                    *)
(*   l.425  `run`            the `action` parameter of the same method     *)
(*   l.431  start(until)     start() is start(None)                        *)
(*   l.295  no `state`       the callers pass (state, dueTime, action)     *)
(*   l.261-272 _queue        one slot per execution context                *)
(*   l.281  not_empty()      "the queue is not empty"                      *)
(*   l.78, l.364 `state`     the enclosing `state`                         *)
(*   l.207  RLock            an RLock instance                             *)
(*   l.540  no parameters    the callers pass (state, action)              *)
(*   l.335  self.executor    the pool made at l.326 (self.pool)            *)
(* Where the operation has already acted when the lookup is reached, the   *)
(* lookup fails as it does in Python and the model raises the fault:       *)
(*   l.222  self.handler     AttributeError (the field is _handler)        *)
(*   l.650  self.run()       AttributeError (PeriodicTimer has no run)     *)
(* l.633 SerialDisposable, imported nowhere, stands on the only path into  *)
(* PeriodicTimer and is read as the serial handle of the disposable        *)
(* module.                                                                 *)
(* Calls into the Python standard library behave as the library does:      *)
(* queue.PriorityQueue is heapq's binary heap, get_nowait() on an empty    *)
(* queue raises queue.Empty, put() on a full queue blocks.                 *)
(* The modules disposable, internal and concurrency are not part of the    *)
(* source at hand; their operations follow the contract of spec.md.        *)
(***************************************************************************)
EXTENDS Integers, Sequences, FiniteSets, TLC

(***************************************************************************)
(* Bounds of the model.                                                    *)
(***************************************************************************)
MaxItems == 2
MaxClock == 10
MaxDepth == 1
MaxPosted == 4
MaxNow == 5
MaxCalls == 3
MaxTimers == 1
MaxSpan == 60
MaxSteps == 3

\* relative durations and absolute times the callers draw from
Spans == {-5, 0, 5, 10}
Times == {0, 5, 10}

\* the faults an action raises, the inner schedulers an action is run by,
\* the execution contexts of the inner scheduler, the periods of a timer
Faults == {"E1", "E2"}
Schedulers == {1, 2}
Contexts == {1, 2}
Intervals == {1, 2}

VARIABLES
  sched,      \* the scheduler the run exercises
  clock,      \* VirtualTimeScheduler.clock
  isEnabled,  \* VirtualTimeScheduler.isEnabled
  queue,      \* VirtualTimeScheduler.queue: the heap list of PriorityQueue
  items,      \* every ScheduledItem created so far, in creation order
  disposed,   \* the items whose SingleAssignmentDisposable is disposed
  frames,     \* the active start(until) calls, outermost first
  pc,         \* "idle": no call in progress; "loop": at the head of start's
              \* while loop; "action": inside the action of the item invoked
  log,        \* the invocations made so far: item and the clock it observed
  fault,      \* where the most recent call raised: "none", or the raise site
  scen,       \* how far the calls so far follow Script, -1 once they differ
  now,        \* CurrentThreadScheduler: the wall clock read by now()
  active,     \* CurrentThreadScheduler: _queue is not None
  cur,        \* CurrentThreadScheduler._run: the item got from the queue
  drains,     \* CurrentThreadScheduler: calls of _run in progress
  running,    \* CurrentThreadScheduler: actions in progress
  handler,    \* CatchScheduler._handler: the faults it answers true to
  recursiveOriginal,  \* CatchScheduler._recursiveOriginal
  recursiveWrapper,   \* CatchScheduler._recursiveWrapper
  wrappers,   \* every CatchScheduler made by _clone, in creation order
  wrapped,    \* how many CatchWrapper objects _wrap has made
  pending,    \* wrapped actions the inner scheduler holds, not yet invoked
  threads,    \* per execution context: its place in CatchWrapper.__call__
  results,    \* how the calls of wrapped actions ended
  timers,     \* every periodic schedule made so far, in creation order
  timeSpan0,  \* Scheduler.normalize: the timeSpan of the call
  ret,        \* Scheduler.normalize: what the call returned, <<>> before it
  scheduled   \* the RecursiveScheduledFunction of invokeRecImmediate

qvars == <<queue, items, disposed, pc, log, fault>>

vtvars == <<clock, isEnabled, frames, scen>>

ctrun == <<active, cur, drains, running>>

ctvars == <<now, ctrun>>

wvars == <<recursiveOriginal, recursiveWrapper, wrappers, wrapped, pending, threads, results>>

cvars == <<handler, wvars>>

pvars == <<timers>>

nvars == <<timeSpan0, ret>>

rvars == <<scheduled>>

vars == <<sched, qvars, vtvars, ctvars, cvars, pvars, nvars, rvars>>

None == 0

(***************************************************************************)
(* ScheduledItem ordering and the heap of queue.PriorityQueue.             *)
(***************************************************************************)
defaultSubComparer(a, b) == a - b

compareTo(its, a, b) == defaultSubComparer(its[a].dueTime, its[b].dueTime)

\* the comparison turned round
ltReversed(its, a, b) == compareTo(its, a, b) > 0

lt(its, a, b) == compareTo(its, a, b) < 0

\* heapq._siftdown(heap, startpos, pos); positions are 0-based as in heapq
RECURSIVE siftdown(_, _, _, _, _)
siftdown(its, h, startpos, pos, newitem) ==
  IF pos > startpos
  THEN LET parentpos == (pos - 1) \div 2
           parent    == h[parentpos + 1]
       IN  IF lt(its, newitem, parent)
           THEN siftdown(its, [h EXCEPT ![pos + 1] = parent], startpos, parentpos, newitem)
           ELSE [h EXCEPT ![pos + 1] = newitem]
  ELSE [h EXCEPT ![pos + 1] = newitem]

\* PriorityQueue._put: heapq.heappush
heappush(its, h, item) == siftdown(its, Append(h, item), 0, Len(h), item)

\* the while loop of heapq._siftup: the smaller child moves up until a leaf
RECURSIVE siftupLoop(_, _, _, _)
siftupLoop(its, h, pos, endpos) ==
  LET childpos == 2 * pos + 1
  IN  IF childpos < endpos
      THEN LET rightpos == childpos + 1
               c == IF rightpos < endpos /\ ~lt(its, h[childpos + 1], h[rightpos + 1])
                    THEN rightpos ELSE childpos
           IN  siftupLoop(its, [h EXCEPT ![pos + 1] = h[c + 1]], c, endpos)
      ELSE <<h, pos>>

siftup(its, h, pos) ==
  LET newitem == h[pos + 1]
      r       == siftupLoop(its, h, pos, Len(h))
  IN  siftdown(its, r[1], pos, r[2], newitem)

\* PriorityQueue._get: heapq.heappop; the pair <<item, heap left>>
heappop(its, h) ==
  LET lastelt == h[Len(h)]
      rest    == SubSeq(h, 1, Len(h) - 1)
  IN  IF rest # <<>>
      THEN <<rest[1], siftup(its, [rest EXCEPT ![1] = lastelt], 0)>>
      ELSE <<lastelt, rest>>

(***************************************************************************)
(* VirtualTimeScheduler / HistoricalScheduler.                             *)
(***************************************************************************)
add(absolute, relative) == absolute + relative

isCancelled(disp, i) == i \in disp

\* the cancelled items handed out like the others
getNextAny(its, disp, h) ==
  IF h = <<>>
  THEN [next |-> None, queue |-> h, raised |-> TRUE]
  ELSE LET r == heappop(its, h)
       IN  [next |-> r[1], queue |-> r[2], raised |-> FALSE]

\* getNext: pop until an item that is not cancelled; get_nowait() on the
\* empty queue raises queue.Empty, so the `next == None` branch is not taken
RECURSIVE getNext(_, _, _)
getNext(its, disp, h) ==
  IF h = <<>>
  THEN [next |-> None, queue |-> h, raised |-> TRUE]
  ELSE LET r == heappop(its, h)
       IN  IF isCancelled(disp, r[1])
           THEN getNext(its, disp, r[2])
           ELSE [next |-> r[1], queue |-> r[2], raised |-> FALSE]

Script == << <<"scheduleRelative", 10>>, <<"scheduleRelative", 5>>, <<"start", None>> >>

Follow(op, arg) ==
  IF scen >= 0 /\ scen < Len(Script) /\ Script[scen + 1] = <<op, arg>>
  THEN scen + 1 ELSE -1

CanCall == pc \in {"idle", "action"}

\* a step of the virtual-time scheduler, a step of the trampoline
OnVirtualTime == sched = "VirtualTime" /\ UNCHANGED <<sched, ctvars, cvars, pvars, nvars, rvars>>

OnCurrentThread == sched = "CurrentThread" /\ UNCHANGED <<sched, vtvars, cvars, pvars, nvars, rvars>>

OnCatch == sched = "Catch" /\ UNCHANGED <<sched, qvars, vtvars, ctvars, pvars, nvars, rvars>>

OnPeriodic == sched = "Periodic" /\ UNCHANGED <<sched, qvars, vtvars, ctrun, cvars, nvars, rvars>>

OnNormalize == sched = "normalize" /\ UNCHANGED <<sched, qvars, vtvars, ctvars, cvars, pvars, rvars>>

OnDefault == sched = "Default" /\ UNCHANGED <<sched, vtvars, ctvars, cvars, pvars, nvars, rvars>>

OnRecursive ==
  /\ sched = "Recursive"
  /\ UNCHANGED <<sched, queue, pc, fault, vtvars, ctvars, cvars, pvars, nvars>>

OnImmediate == sched = "Immediate" /\ UNCHANGED <<sched, vtvars, drains, running, cvars, pvars, nvars, rvars>>

\* no CatchWrapper made, no periodic schedule made, no queue-backed call made
NoWrappers ==
  /\ recursiveOriginal = None /\ recursiveWrapper = None
  /\ wrappers = <<>> /\ wrapped = 0 /\ pending = 0
  /\ threads = <<>> /\ results = {}

NoCatch == handler = [e \in Faults |-> FALSE] /\ NoWrappers

NoPeriodic == timers = <<>>

NoNormalize == timeSpan0 = 0 /\ ret = <<>>

\* no RecursiveScheduledFunction made
NoRecursive == scheduled = None

NoQueue ==
  /\ queue = <<>> /\ items = <<>> /\ disposed = {} /\ pc = "idle"
  /\ log = <<>> /\ fault = "none"
  /\ clock = 0 /\ isEnabled = FALSE /\ frames = <<>> /\ scen = -1
  /\ active = FALSE /\ cur = None /\ drains = 0 /\ running = 0

\* a fault raised by a call: it leaves through every active frame
Raise(f) ==
  /\ fault' = f
  /\ frames' = <<>>
  /\ pc' = "idle"

Return ==
  /\ fault' = "none"
  /\ UNCHANGED <<frames, pc>>

VTInit ==
  /\ sched = "VirtualTime"
  /\ clock = 0
  /\ isEnabled = FALSE
  /\ queue = <<>>
  /\ items = <<>>
  /\ disposed = {}
  /\ frames = <<>>
  /\ pc = "idle"
  /\ log = <<>>
  /\ fault = "none"
  /\ scen = 0
  /\ now = 0 /\ active = FALSE /\ cur = None /\ drains = 0 /\ running = 0
  /\ NoCatch /\ NoPeriodic /\ NoNormalize /\ NoRecursive

\* scheduleAbsoluteWithState: si = ScheduledItem(...); queue.put(si)
Enqueue(dueTime) ==
  LET si == [dueTime |-> dueTime, state |-> Len(items) + 1,
             behind |-> defaultSubComparer(dueTime, clock) < 0]
      its == Append(items, si)
  IN  /\ items' = its
      /\ queue' = heappush(its, queue, Len(its))

scheduleAbsoluteWithState(dueTime) ==
  /\ CanCall
  /\ OnVirtualTime
  /\ Len(items) < MaxItems
  /\ Enqueue(dueTime)
  /\ Return
  /\ scen' = Follow("scheduleAbsolute", dueTime)
  /\ UNCHANGED <<clock, isEnabled, disposed, log>>

scheduleRelativeWithState(dueTime) ==
  /\ CanCall
  /\ OnVirtualTime
  /\ Len(items) < MaxItems
  /\ add(clock, dueTime) <= MaxClock
  /\ Enqueue(add(clock, dueTime))
  /\ Return
  /\ scen' = Follow("scheduleRelative", dueTime)
  /\ UNCHANGED <<clock, isEnabled, disposed, log>>

\* si.disposable.dispose(), by whoever holds the token
dispose(i) ==
  /\ CanCall
  /\ OnVirtualTime
  /\ i \in 1..Len(items)
  /\ disposed' = disposed \cup {i}
  /\ Return
  /\ scen' = Follow("dispose", i)
  /\ UNCHANGED <<clock, isEnabled, queue, items, log>>

\* the body of start(until) once called: bounded tells whether until is given
startBody(bounded, until) ==
  IF isEnabled
  THEN /\ Return
       /\ UNCHANGED isEnabled
  ELSE /\ isEnabled' = TRUE
       /\ frames' = Append(frames, [bounded |-> bounded, until |-> until])
       /\ pc' = "loop"
       /\ fault' = "none"

start(bounded, until) ==
  /\ CanCall
  /\ OnVirtualTime
  /\ isEnabled \/ Len(frames) < MaxDepth
  /\ startBody(bounded, until)
  /\ scen' = IF bounded THEN -1 ELSE Follow("start", None)
  /\ UNCHANGED <<clock, queue, items, disposed, log>>

stop ==
  /\ CanCall
  /\ OnVirtualTime
  /\ isEnabled' = FALSE
  /\ Return
  /\ scen' = Follow("stop", None)
  /\ UNCHANGED <<clock, queue, items, disposed, log>>

\* a backward advance taken for "nothing to do"
advanceToSilent(time) ==
  LET dueToClock == defaultSubComparer(time, clock)
  IN  IF dueToClock <= 0
      THEN /\ Return
           /\ UNCHANGED isEnabled
      ELSE startBody(TRUE, time)

\* the return for time equal to the clock left out
advanceToStarts(time) ==
  LET dueToClock == defaultSubComparer(time, clock)
  IN  IF dueToClock < 0
      THEN /\ Raise("advanceTo")
           /\ UNCHANGED isEnabled
      ELSE startBody(TRUE, time)

advanceToBody(time) ==
  LET dueToClock == defaultSubComparer(time, clock)
  IN  IF dueToClock < 0
      THEN /\ Raise("advanceTo")
           /\ UNCHANGED isEnabled
      ELSE IF dueToClock = 0
      THEN /\ Return
           /\ UNCHANGED isEnabled
      ELSE startBody(TRUE, time)

advanceTo(time) ==
  /\ CanCall
  /\ isEnabled \/ Len(frames) < MaxDepth
  /\ advanceToBody(time)
  /\ scen' = Follow("advanceTo", time)
  /\ UNCHANGED <<clock, queue, items, disposed, log>>
  /\ OnVirtualTime

advanceBy(time) ==
  /\ CanCall
  /\ isEnabled \/ Len(frames) < MaxDepth
  /\ add(clock, time) <= MaxClock
  /\ advanceToBody(add(clock, time))
  /\ scen' = Follow("advanceBy", time)
  /\ UNCHANGED <<clock, queue, items, disposed, log>>
  /\ OnVirtualTime

\* the range check left out
sleepUnchecked(time) ==
  LET until == add(clock, time)
  IN  /\ CanCall
      /\ OnVirtualTime
      /\ until <= MaxClock
      /\ clock' = until
      /\ Return
      /\ scen' = Follow("sleep", time)
      /\ UNCHANGED <<isEnabled, queue, items, disposed, log>>

sleep(time) ==
  LET until == add(clock, time)
  IN  /\ CanCall
      /\ OnVirtualTime
      /\ until <= MaxClock
      /\ IF defaultSubComparer(clock, until) >= 0
         THEN /\ Raise("sleep")
              /\ UNCHANGED clock
         ELSE /\ clock' = until
              /\ Return
      /\ scen' = Follow("sleep", time)
      /\ UNCHANGED <<isEnabled, queue, items, disposed, log>>

\* one turn of the while loop of start
startLoop ==
  /\ pc = "loop"
  /\ OnVirtualTime
  /\ IF ~isEnabled
     THEN \* the loop ends and start returns to its caller
          /\ frames' = SubSeq(frames, 1, Len(frames) - 1)
          /\ pc' = IF Len(frames) > 1 THEN "action" ELSE "idle"
          /\ UNCHANGED <<clock, isEnabled, queue, log, fault>>
     ELSE LET top == frames[Len(frames)]
              r   == getNext(items, disposed, queue)
          IN  /\ queue' = r.queue
              /\ IF r.raised
                 THEN /\ frames' = <<>>
                      /\ pc' = "idle"
                      /\ fault' = "Empty"
                      /\ UNCHANGED <<clock, isEnabled, log>>
                 ELSE IF top.bounded /\ defaultSubComparer(items[r.next].dueTime, top.until) > 0
                 THEN /\ isEnabled' = FALSE
                      /\ UNCHANGED <<clock, frames, pc, log, fault>>
                 ELSE /\ clock' = IF defaultSubComparer(items[r.next].dueTime, clock) > 0
                                  THEN items[r.next].dueTime ELSE clock
                      /\ log' = Append(log, [item |-> r.next, clock |-> clock'])
                      /\ pc' = "action"
                      /\ UNCHANGED <<isEnabled, frames, fault>>
  /\ UNCHANGED <<items, disposed, scen>>

\* the action of the invoked item returns; invoke() stores its result
actionReturn ==
  /\ pc = "action"
  /\ OnVirtualTime
  /\ pc' = "loop"
  /\ UNCHANGED <<clock, isEnabled, queue, items, disposed, frames, log, fault, scen>>

\* the action of the invoked item raises; nothing on the way out catches it
actionRaise ==
  /\ pc = "action"
  /\ OnVirtualTime
  /\ frames' = <<>>
  /\ pc' = "idle"
  /\ fault' = "Action"
  /\ scen' = -1
  /\ UNCHANGED <<clock, isEnabled, queue, items, disposed, log>>

VTNext ==
  \/ \E t \in Times : scheduleAbsoluteWithState(t)
  \/ \E d \in Spans : scheduleRelativeWithState(d)
  \/ \E i \in 1..MaxItems : dispose(i)
  \/ start(FALSE, None)
  \/ \E t \in Times : start(TRUE, t)
  \/ stop
  \/ \E t \in Times : advanceTo(t)
  \/ \E d \in Spans : advanceBy(d)
  \/ \E d \in Spans : sleep(d)
  \/ startLoop
  \/ actionReturn
  \/ actionRaise

VirtualTimeSpec == VTInit /\ [][VTNext]_vars

(***************************************************************************)
(* CurrentThreadScheduler.  The wall clock moves only when _run sleeps.    *)
(***************************************************************************)
QueueSize == 4

\* the clamp left out
normalizeIdentity(timeSpan) == timeSpan

normalize(timeSpan) == IF timeSpan < 0 THEN 0 ELSE timeSpan

CTInit ==
  /\ sched = "CurrentThread"
  /\ queue = <<>> /\ items = <<>> /\ disposed = {} /\ pc = "idle"
  /\ log = <<>> /\ fault = "none"
  /\ now = 0 /\ active = FALSE /\ cur = None /\ drains = 0 /\ running = 0
  /\ clock = 0 /\ isEnabled = FALSE /\ frames = <<>> /\ scen = -1
  /\ NoCatch /\ NoPeriodic /\ NoNormalize /\ NoRecursive

\* the queue test left out: every call sets up a queue and drains it
scheduleAndDrain(dueTime) ==
  LET dt  == now + normalize(dueTime)
      si  == [dueTime |-> dt, state |-> Len(items) + 1,
              behind |-> defaultSubComparer(dt, now) < 0,
              by |-> IF pc = "action" THEN cur ELSE None]
      its == Append(items, si)
  IN  /\ CanCall
      /\ OnCurrentThread
      /\ Len(items) < MaxPosted
      /\ dt <= MaxNow
      /\ items' = its
      /\ active' = TRUE
      /\ queue' = heappush(its, <<>>, Len(its))
      /\ drains' = drains + 1
      /\ pc' = "run"
      /\ fault' = "none"
      /\ UNCHANGED <<disposed, log, now, cur, running>>

\* _scheduleRelative; put() blocks while the queue holds QueueSize items.
\* `by` notes the item whose action makes the call, None outside any action.
scheduleWithRelativeAndState(dueTime) ==
  LET dt  == now + normalize(dueTime)
      si  == [dueTime |-> dt, state |-> Len(items) + 1,
              behind |-> defaultSubComparer(dt, now) < 0,
              by |-> IF pc = "action" THEN cur ELSE None]
      its == Append(items, si)
  IN  /\ CanCall
      /\ OnCurrentThread
      /\ Len(items) < MaxPosted
      /\ dt <= MaxNow
      /\ items' = its
      /\ IF ~active
         THEN \* _init(); put(si); _run()
              /\ active' = TRUE
              /\ queue' = heappush(its, <<>>, Len(its))
              /\ drains' = drains + 1
              /\ pc' = "run"
         ELSE /\ Len(queue) < QueueSize
              /\ queue' = heappush(its, queue, Len(its))
              /\ UNCHANGED <<active, drains, pc>>
      /\ fault' = "none"
      /\ UNCHANGED <<disposed, log, now, cur, running>>

\* si.disposable.dispose(), from the running action or from another thread
disposeToken(i) ==
  /\ OnCurrentThread
  /\ i \in 1..Len(items)
  /\ disposed' = disposed \cup {i}
  /\ UNCHANGED <<queue, items, pc, log, fault, ctvars>>

\* _run at the head of its loop
runLoop ==
  /\ pc = "run"
  /\ OnCurrentThread
  /\ IF queue = <<>>
     THEN \* _run returns; finally: _dispose()
          /\ active' = FALSE
          /\ drains' = drains - 1
          /\ pc' = IF running > 0 THEN "action" ELSE "idle"
          /\ UNCHANGED <<queue, cur>>
     ELSE LET r == heappop(items, queue)
          IN  /\ queue' = r[2]
              /\ cur' = r[1]
              /\ pc' = IF isCancelled(disposed, r[1]) THEN "run" ELSE "sleep"
              /\ UNCHANGED <<active, drains>>
  /\ UNCHANGED <<items, disposed, log, fault, now, running>>

\* the check after the sleep left out
runWakeUnchecked ==
  /\ pc = "sleep"
  /\ OnCurrentThread
  /\ now' = IF items[cur].dueTime > now THEN items[cur].dueTime ELSE now
  /\ log' = Append(log, [item |-> cur, clock |-> now'])
  /\ running' = running + 1
  /\ pc' = "action"
  /\ UNCHANGED <<queue, items, disposed, fault, active, cur, drains>>

\* _run after sleep(item.dueTime - now()): invoke unless cancelled meanwhile
runWake ==
  /\ pc = "sleep"
  /\ OnCurrentThread
  /\ now' = IF items[cur].dueTime > now THEN items[cur].dueTime ELSE now
  /\ IF ~isCancelled(disposed, cur)
     THEN /\ log' = Append(log, [item |-> cur, clock |-> now'])
          /\ running' = running + 1
          /\ pc' = "action"
     ELSE /\ pc' = "run"
          /\ UNCHANGED <<log, running>>
  /\ UNCHANGED <<queue, items, disposed, fault, active, cur, drains>>

\* the invoked action returns to _run
runActionReturn ==
  /\ pc = "action"
  /\ OnCurrentThread
  /\ running' = running - 1
  /\ pc' = "run"
  /\ UNCHANGED <<queue, items, disposed, log, fault, now, active, cur, drains>>

\* the invoked action raises: out of _run, through finally: _dispose()
runActionRaise ==
  /\ pc = "action"
  /\ OnCurrentThread
  /\ running' = 0
  /\ drains' = 0
  /\ active' = FALSE
  /\ queue' = <<>>
  /\ pc' = "idle"
  /\ fault' = "Action"
  /\ UNCHANGED <<items, disposed, log, now, cur>>

CTNext ==
  \/ \E d \in Spans : scheduleWithRelativeAndState(d)
  \/ \E i \in 1..MaxPosted : disposeToken(i)
  \/ runLoop
  \/ runWake
  \/ runActionReturn
  \/ runActionRaise

CurrentThreadSpec == CTInit /\ [][CTNext]_vars

\* either queue-backed scheduler
QueueBackedInit == VTInit \/ CTInit

QueueBackedNext == VTNext \/ CTNext

QueueBackedSpec == QueueBackedInit /\ [][QueueBackedNext]_vars

(***************************************************************************)
(* CatchScheduler and CatchWrapper.  The inner scheduler is any Scheduler: *)
(* it holds the wrapped actions it was handed and invokes each from one of *)
(* its execution contexts, passing itself or a nested scheduler as _self.  *)
(***************************************************************************)
CatchInit ==
  /\ sched = "Catch"
  /\ handler \in [Faults -> BOOLEAN]
  /\ recursiveOriginal = None /\ recursiveWrapper = None
  /\ wrappers = <<>> /\ wrapped = 0 /\ pending = 0
  /\ threads = [c \in Contexts |-> [pc |-> "idle", self |-> None, given |-> None]]
  /\ results = {}
  /\ now = 0 /\ NoQueue /\ NoPeriodic /\ NoNormalize /\ NoRecursive

\* _scheduleNow, _scheduleRelative, _scheduleAbsolute: the inner scheduler
\* is handed self._wrap(action)
catchSchedule(kind) ==
  /\ OnCatch
  /\ wrapped < MaxCalls
  /\ wrapped' = wrapped + 1
  /\ pending' = pending + 1
  /\ UNCHANGED <<handler, recursiveOriginal, recursiveWrapper, wrappers, threads, results>>

\* _clone: a CatchScheduler over `scheduler` with the same handler
clone(scheduler) ==
  [scheduler |-> scheduler, handler |-> handler,
   recursiveOriginal |-> None, recursiveWrapper |-> None]

\* CatchWrapper.__call__ evaluates self.parent._getRecursiveWrapper(_self):
\* the part of _getRecursiveWrapper under self.lock
getRecursiveWrapper(c, scheduler) ==
  /\ OnCatch
  /\ threads[c].pc = "idle"
  /\ pending > 0
  /\ pending' = pending - 1
  /\ IF recursiveOriginal # scheduler
     THEN LET w == Len(wrappers) + 1
          IN  /\ recursiveOriginal' = scheduler
              /\ wrappers' = Append(wrappers,
                    [clone(scheduler) EXCEPT !.recursiveOriginal = scheduler,
                                             !.recursiveWrapper = w])
              /\ recursiveWrapper' = w
     ELSE UNCHANGED <<recursiveOriginal, recursiveWrapper, wrappers>>
  /\ threads' = [threads EXCEPT ![c] = [pc |-> "return", self |-> scheduler, given |-> None]]
  /\ UNCHANGED <<handler, wrapped, results>>

\* _getRecursiveWrapper: return self._recursiveWrapper, the lock released;
\* the action is then called with what was returned
getRecursiveWrapperReturn(c) ==
  /\ OnCatch
  /\ threads[c].pc = "return"
  /\ threads' = [threads EXCEPT ![c].pc = "action", ![c].given = recursiveWrapper]
  /\ UNCHANGED <<handler, recursiveOriginal, recursiveWrapper, wrappers, wrapped, pending, results>>

\* the call of a wrapped action is over
Ended(c, raised, asked, escaped, token) ==
  /\ results' = results \cup {[self |-> threads[c].self, given |-> threads[c].given,
                               raised |-> raised, asked |-> asked,
                               escaped |-> escaped, token |-> token]}
  /\ threads' = [threads EXCEPT ![c] = [pc |-> "idle", self |-> None, given |-> None]]
  /\ UNCHANGED <<handler, recursiveOriginal, recursiveWrapper, wrappers, wrapped, pending>>

\* CatchWrapper.__call__: the action returns its token
CatchWrapperReturn(c) ==
  /\ OnCatch
  /\ threads[c].pc = "action"
  /\ Ended(c, "none", "none", "none", "action")

\* the handler's answer taken the wrong way round
CatchWrapperExceptInverted(c, e) ==
  /\ OnCatch
  /\ threads[c].pc = "action"
  /\ IF handler[e]
     THEN Ended(c, e, e, e, "none")
     ELSE Ended(c, e, e, "none", "empty")

\* CatchWrapper.__call__: the action raises e
CatchWrapperExcept(c, e) ==
  /\ OnCatch
  /\ threads[c].pc = "action"
  /\ IF ~handler[e]
     THEN Ended(c, e, e, e, "none")
     ELSE Ended(c, e, e, "none", "empty")

CatchNext ==
  \/ \E kind \in {"now", "relative", "absolute"} : catchSchedule(kind)
  \/ \E c \in Contexts, s \in Schedulers : getRecursiveWrapper(c, s)
  \/ \E c \in Contexts : getRecursiveWrapperReturn(c)
  \/ \E c \in Contexts : CatchWrapperReturn(c)
  \/ \E c \in Contexts, e \in Faults : CatchWrapperExcept(c, e)

CatchSpec == CatchInit /\ [][CatchNext]_vars

(***************************************************************************)
(* Periodic schedules: DefaultScheduler.schedulePeriodicWithState over     *)
(* PeriodicTimer and threading.Timer, alone or under                       *)
(* CatchScheduler.schedulePeriodicWithState.                               *)
(***************************************************************************)
PeriodicInit ==
  /\ sched = "Periodic"
  /\ handler \in [Faults -> BOOLEAN]
  /\ timers = <<>>
  /\ now = 0 /\ NoQueue /\ NoWrappers /\ NoNormalize /\ NoRecursive

\* schedulePeriodicWithState: gate = AsyncLock(), PeriodicTimer(...).start();
\* under the CatchScheduler also failed = False and the token d
schedulePeriodicWithState(catch, interval) ==
  /\ OnPeriodic
  /\ Len(timers) < MaxTimers
  /\ timers' = Append(timers,
       [catch |-> catch, interval |-> interval, armedAt |-> now,
        phase |-> "armed", timerDisposed |-> FALSE,
        gateDisposed |-> FALSE, gateAcquired |-> FALSE, queued |-> 0,
        failed |-> FALSE, dDisposed |-> FALSE,
        inflight |-> 0, invoked |-> 0, startedAt |-> 0,
        raised |-> "none", escaped |-> "none"])
  /\ UNCHANGED now

\* the wall clock
timePasses ==
  /\ OnPeriodic
  /\ now < MaxNow
  /\ now' = now + 1
  /\ UNCHANGED timers

\* threading.Timer.run: the wait is over and the timer was not cancelled
timerFire(p) ==
  /\ OnPeriodic
  /\ p \in 1..Len(timers)
  /\ timers[p].phase = "armed"
  /\ ~timers[p].timerDisposed
  /\ now >= timers[p].armedAt + timers[p].interval
  /\ timers' = [timers EXCEPT ![p].phase = "fired"]
  /\ UNCHANGED now

\* a repeating timer that calls the action itself, no gate in between
executeRepeating(p) ==
  /\ OnPeriodic
  /\ p \in 1..Len(timers)
  /\ timers[p].phase = "fired"
  /\ timers' = [timers EXCEPT ![p].phase = "armed", ![p].armedAt = now,
                              ![p].inflight = @ + 1, ![p].invoked = @ + 1,
                              ![p].startedAt = now]
  /\ UNCHANGED now

\* PeriodicTimer._execute: self.action() is gate.wait(gated).  Where the
\* action is not entered, wait returns and self.run() raises.
execute(p) ==
  /\ OnPeriodic
  /\ p \in 1..Len(timers)
  /\ timers[p].phase = "fired"
  /\ LET t == timers[p]
     IN  timers' = [timers EXCEPT ![p] =
           IF t.gateDisposed
           THEN [t EXCEPT !.phase = "dead", !.escaped = "AttributeError"]
           ELSE IF t.gateAcquired
           THEN [t EXCEPT !.queued = @ + 1, !.phase = "dead",
                          !.escaped = "AttributeError"]
           ELSE IF t.catch /\ t.failed
           THEN [t EXCEPT !.phase = "dead", !.escaped = "AttributeError"]
           ELSE [t EXCEPT !.gateAcquired = TRUE, !.phase = "executing",
                          !.inflight = @ + 1, !.invoked = @ + 1,
                          !.startedAt = now]]
  /\ UNCHANGED now

\* the action returns: the gate runs what was queued behind it or is
\* released, and _execute goes on to self.run()
gatedReturn(p) ==
  /\ OnPeriodic
  /\ p \in 1..Len(timers)
  /\ timers[p].inflight > 0
  /\ LET t == timers[p]
     IN  timers' = [timers EXCEPT ![p] =
           IF t.queued > 0 /\ ~t.gateDisposed
           THEN [t EXCEPT !.queued = @ - 1, !.invoked = @ + 1, !.startedAt = now]
           ELSE [t EXCEPT !.inflight = @ - 1, !.gateAcquired = FALSE,
                          !.phase = "dead", !.escaped = "AttributeError"]]
  /\ UNCHANGED now

\* the action raises e.  Under the CatchScheduler `scheduled` sets failed
\* and evaluates self.handler(e); otherwise e leaves gate.wait and _execute.
gatedRaise(p, e) ==
  /\ OnPeriodic
  /\ p \in 1..Len(timers)
  /\ timers[p].inflight > 0
  /\ LET t == timers[p]
     IN  timers' = [timers EXCEPT ![p] =
           [t EXCEPT !.inflight = @ - 1, !.gateAcquired = FALSE, !.queued = 0,
                     !.gateDisposed = TRUE, !.phase = "dead", !.raised = e,
                     !.failed = t.catch,
                     !.escaped = IF t.catch THEN "AttributeError" ELSE e]]
  /\ UNCHANGED now

\* the caller disposes the token of the schedule: the timer is cancelled
\* and the gate disposed; under the CatchScheduler through d
periodicDispose(p) ==
  /\ OnPeriodic
  /\ p \in 1..Len(timers)
  /\ timers' = [timers EXCEPT ![p].timerDisposed = TRUE, ![p].gateDisposed = TRUE,
                              ![p].queued = 0,
                              ![p].dDisposed = timers[p].catch]
  /\ UNCHANGED now

PeriodicNext ==
  \/ \E catch \in BOOLEAN, interval \in Intervals : schedulePeriodicWithState(catch, interval)
  \/ timePasses
  \/ \E p \in 1..MaxTimers : timerFire(p)
  \/ \E p \in 1..MaxTimers : execute(p)
  \/ \E p \in 1..MaxTimers : gatedReturn(p)
  \/ \E p \in 1..MaxTimers, e \in Faults : gatedRaise(p, e)
  \/ \E p \in 1..MaxTimers : periodicDispose(p)

PeriodicSpec == PeriodicInit /\ [][PeriodicNext]_vars

(***************************************************************************)
(* Scheduler.normalize, called on its own.                                 *)
(***************************************************************************)
NormalizeInit ==
  /\ sched = "normalize"
  /\ timeSpan0 \in -MaxSpan..MaxSpan
  /\ ret = <<>>
  /\ now = 0 /\ NoQueue /\ NoCatch /\ NoPeriodic /\ NoRecursive

\* a call of Scheduler.normalize(timeSpan0)
normalizeCall ==
  /\ OnNormalize
  /\ ret = <<>>
  /\ ret' = <<normalize(timeSpan0)>>
  /\ UNCHANGED timeSpan0

NormalizeNext == normalizeCall

NormalizeSpec == NormalizeInit /\ [][NormalizeNext]_vars

(***************************************************************************)
(* ImmediateScheduler and the AsyncLockScheduler it hands to each action.  *)
(* Here `items` holds every action scheduled, `by` naming the action       *)
(* through whose nested scheduler it was scheduled (None: through the      *)
(* ImmediateScheduler itself); `active` says that the gate of the nested   *)
(* scheduler exists, `running` counts the work the gate is running,        *)
(* `queue` is what waits behind the gate, `cur` is the action in progress  *)
(* and `now` the wall clock.                                               *)
(***************************************************************************)
ImmediateInit ==
  /\ sched = "Immediate"
  /\ now = 0 /\ NoQueue /\ NoCatch /\ NoPeriodic /\ NoNormalize /\ NoRecursive

\* action(self.AsyncLockScheduler(), state): the action runs in the call
Invoke(dueTime) ==
  LET si == [dueTime |-> dueTime, state |-> Len(items) + 1, behind |-> FALSE, by |-> None]
  IN  /\ items' = Append(items, si)
      /\ log' = Append(log, [item |-> Len(items) + 1, clock |-> now'])
      /\ cur' = Len(items) + 1
      /\ active' = FALSE
      /\ pc' = "action"
      /\ fault' = "none"
      /\ UNCHANGED <<queue, disposed>>

\* ImmediateScheduler._scheduleNow
immediateScheduleNow ==
  /\ pc = "idle"
  /\ OnImmediate
  /\ Len(items) < MaxPosted
  /\ now' = now
  /\ Invoke(now)

\* ImmediateScheduler._scheduleRelative: sleep(dt), then the action
immediateScheduleRelative(dueTime) ==
  LET dt == normalize(dueTime)
  IN  /\ pc = "idle"
      /\ OnImmediate
      /\ Len(items) < MaxPosted
      /\ now + dt <= MaxNow
      /\ now' = now + dt
      /\ Invoke(now + dt)

\* AsyncLockScheduler._scheduleNow and _scheduleRelative, called by the
\* action in progress: m, the gate if there is none yet, and
\* gate.wait(lambda: gated).  The gate runs the lambda at once when it is
\* free and queues it otherwise; the lambda returns gated and calls nothing.
nestedSchedule(dueTime) ==
  LET m == [dueTime |-> now + normalize(dueTime), state |-> Len(items) + 1,
            behind |-> FALSE, by |-> cur]
  IN  /\ pc = "action"
      /\ OnImmediate
      /\ Len(items) < MaxPosted
      /\ items' = Append(items, m)
      /\ active' = TRUE
      /\ queue' = IF running > 0 THEN Append(queue, Len(items) + 1) ELSE queue
      /\ UNCHANGED <<disposed, log, cur, pc, fault, now>>

\* m.dispose(), by the action that holds the token
nestedDispose(i) ==
  /\ pc = "action"
  /\ OnImmediate
  /\ i \in 1..Len(items)
  /\ items[i].by = cur
  /\ disposed' = disposed \cup {i}
  /\ UNCHANGED <<queue, items, log, cur, pc, fault, now, active>>

\* the action returns, and with it the schedule call
immediateReturn ==
  /\ pc = "action"
  /\ OnImmediate
  /\ pc' = "idle"
  /\ cur' = None
  /\ UNCHANGED <<queue, items, disposed, log, fault, now, active>>

\* the action raises: the fault reaches the caller of the schedule call
immediateRaise ==
  /\ pc = "action"
  /\ OnImmediate
  /\ pc' = "idle"
  /\ cur' = None
  /\ fault' = "Action"
  /\ UNCHANGED <<queue, items, disposed, log, now, active>>

ImmediateNext ==
  \/ immediateScheduleNow
  \/ \E d \in Spans : immediateScheduleRelative(d)
  \/ \E d \in Spans : nestedSchedule(d)
  \/ \E i \in 1..MaxPosted : nestedDispose(i)
  \/ immediateReturn
  \/ immediateRaise

ImmediateSpec == ImmediateInit /\ [][ImmediateNext]_vars

(***************************************************************************)
(* DefaultScheduler: schedule calls with a relative delay.  Here `items`   *)
(* holds every action scheduled, `timer` telling what carries it ("pool":  *)
(* submitted to the pool, "created": a Timer that was constructed,         *)
(* "started": a Timer that runs), and `queue` the work submitted to the    *)
(* pool that no worker has taken yet.                                      *)
(***************************************************************************)
DefaultInit ==
  /\ sched = "Default"
  /\ now = 0 /\ NoQueue /\ NoCatch /\ NoPeriodic /\ NoNormalize /\ NoRecursive

\* DefaultScheduler._scheduleRelative: dt == 0 goes to _scheduleNow, which
\* submits `scheduled` to the pool; otherwise timer = Timer(dt, scheduled)
\* and the token CompositeDisposable(d, cancel) is returned
defaultScheduleRelative(dueTime) ==
  LET dt == normalize(dueTime)
      si == [dueTime |-> now + dt, state |-> Len(items) + 1, behind |-> FALSE,
             by |-> None, timer |-> IF dt = 0 THEN "pool" ELSE "created"]
  IN  /\ OnDefault
      /\ Len(items) < MaxPosted
      /\ items' = Append(items, si)
      /\ queue' = IF dt = 0 THEN Append(queue, Len(items) + 1) ELSE queue
      /\ UNCHANGED <<disposed, log, pc, fault>>

\* a pool worker takes submitted work and runs `scheduled`:
\* if not d.isDisposed: d.disposable = action(self, state)
poolRun(k) ==
  /\ OnDefault
  /\ k \in 1..Len(queue)
  /\ queue' = SubSeq(queue, 1, k - 1) \o SubSeq(queue, k + 1, Len(queue))
  /\ log' = IF isCancelled(disposed, queue[k]) THEN log
            ELSE Append(log, [item |-> queue[k], clock |-> now])
  /\ UNCHANGED <<items, disposed, pc, fault>>

\* the caller disposes the token: d is disposed, and future.cancel or
\* timer.cancel takes back what has not begun
defaultDispose(i) ==
  /\ OnDefault
  /\ i \in 1..Len(items)
  /\ disposed' = disposed \cup {i}
  /\ queue' = SelectSeq(queue, LAMBDA q : q # i)
  /\ UNCHANGED <<items, log, pc, fault>>

DefaultNext ==
  \/ \E d \in Spans : defaultScheduleRelative(d)
  \/ \E k \in 1..MaxPosted : poolRun(k)
  \/ \E i \in 1..MaxPosted : defaultDispose(i)

DefaultSpec == DefaultInit /\ [][DefaultNext]_vars

(***************************************************************************)
(* RecursiveScheduledFunction driven by invokeRecImmediate on a scheduler  *)
(* that runs scheduled work on the threads of a pool.  Here `items` holds  *)
(* the steps of the chain: `by` is the step whose continuation call        *)
(* scheduled it, `phase` runs "pending" (scheduled, its callback not       *)
(* begun), "started" (schedulerCallback past its locked block), "running"  *)
(* (inside the action), "done" (the action returned); `at` is where the    *)
(* step's thread stands inside actionCallback ("out" when it is not in     *)
(* it), `token` the value its pending self.schedule call returned and      *)
(* `calls` the continuation calls it has completed.  `disposed` holds the  *)
(* steps whose token is disposed.                                          *)
(***************************************************************************)
RecursiveInit ==
  /\ sched = "Recursive"
  /\ now = 0 /\ NoQueue /\ NoCatch /\ NoPeriodic /\ NoNormalize /\ NoRecursive

Step(by, phase) ==
  [state |-> 0, by |-> by, phase |-> phase, at |-> "out", token |-> None,
   calls |-> 0]

\* Scheduler.invokeRecImmediate: scheduled = RecursiveScheduledFunction(..)
\* (l.581-590), then scheduled.run(state) invokes the action
invokeRecImmediate ==
  /\ OnRecursive
  /\ items = <<>>
  /\ scheduled' = [isDone |-> FALSE, isAdded |-> FALSE, cancel |-> None,
                   group |-> {}, isDisposed |-> FALSE]
  /\ items' = <<Step(None, "running")>>
  /\ log' = Append(log, [item |-> 1, clock |-> now])
  /\ UNCHANGED disposed

\* the action of step k calls its continuation; actionCallback begins:
\* self.isDone = False; self.isAdded = False
actionCallback(k) ==
  /\ OnRecursive
  /\ k \in 1..Len(items)
  /\ items[k].phase = "running" /\ items[k].at = "out"
  /\ items[k].calls < 2 /\ Len(items) < MaxSteps
  /\ scheduled' = [scheduled EXCEPT !.isDone = FALSE, !.isAdded = FALSE]
  /\ items' = [items EXCEPT ![k].at = "schedule"]
  /\ UNCHANGED <<disposed, log>>

\* self.schedule(newState, self.schedulerCallback) returns the token of
\* the step it has scheduled
actionCallbackSchedule(k) ==
  /\ OnRecursive
  /\ k \in 1..Len(items)
  /\ items[k].at = "schedule" /\ Len(items) < MaxSteps
  /\ items' = Append([items EXCEPT ![k].at = "store",
                                   ![k].token = Len(items) + 1],
                     Step(k, "pending"))
  /\ UNCHANGED <<scheduled, disposed, log>>

\* self.cancel = <the token returned>
actionCallbackStore(k) ==
  /\ OnRecursive
  /\ k \in 1..Len(items)
  /\ items[k].at = "store"
  /\ scheduled' = [scheduled EXCEPT !.cancel = items[k].token]
  /\ items' = [items EXCEPT ![k].at = "lock"]
  /\ UNCHANGED <<disposed, log>>

\* with self.lock: if not self.isDone: self.group.add(self.cancel);
\* self.isAdded = True.  A disposed group disposes what is added to it.
actionCallbackAdd(k) ==
  /\ OnRecursive
  /\ k \in 1..Len(items)
  /\ items[k].at = "lock"
  /\ IF scheduled.isDone
       THEN UNCHANGED <<scheduled, disposed>>
       ELSE IF scheduled.isDisposed
         THEN /\ scheduled' = [scheduled EXCEPT !.isAdded = TRUE]
              /\ disposed' = disposed \cup {scheduled.cancel}
         ELSE /\ scheduled' = [scheduled EXCEPT
                                 !.group = @ \cup {scheduled.cancel},
                                 !.isAdded = TRUE]
              /\ UNCHANGED disposed
  /\ items' = [items EXCEPT ![k].at = "out", ![k].calls = @ + 1]
  /\ UNCHANGED log

\* a thread of the pool takes step m, finds its token not disposed and
\* enters schedulerCallback: with self.lock: if self.isAdded:
\* self.group.remove(self.cancel) else: self.isDone = True
schedulerCallback(m) ==
  /\ OnRecursive
  /\ m \in 1..Len(items)
  /\ items[m].phase = "pending" /\ ~isCancelled(disposed, m)
  /\ scheduled' = IF scheduled.isAdded
                    THEN [scheduled EXCEPT !.group = @ \ {scheduled.cancel}]
                    ELSE [scheduled EXCEPT !.isDone = TRUE]
  /\ items' = [items EXCEPT ![m].phase = "started"]
  /\ UNCHANGED <<disposed, log>>

\* schedulerCallback goes on: self.run(state) invokes the action
run(m) ==
  /\ OnRecursive
  /\ m \in 1..Len(items)
  /\ items[m].phase = "started"
  /\ items' = [items EXCEPT ![m].phase = "running"]
  /\ log' = Append(log, [item |-> m, clock |-> now])
  /\ UNCHANGED <<scheduled, disposed>>

\* the action of step k returns
stepReturn(k) ==
  /\ OnRecursive
  /\ k \in 1..Len(items)
  /\ items[k].phase = "running" /\ items[k].at = "out"
  /\ items' = [items EXCEPT ![k].phase = "done"]
  /\ UNCHANGED <<scheduled, disposed, log>>

\* invokeRecImmediate has returned scheduled.group and its holder
\* disposes it: every token held is disposed and the group is cleared
groupDispose ==
  /\ OnRecursive
  /\ items # <<>> /\ ~scheduled.isDisposed
  /\ items[1].phase = "done"
  /\ disposed' = disposed \cup scheduled.group
  /\ scheduled' = [scheduled EXCEPT !.group = {}, !.isDisposed = TRUE]
  /\ UNCHANGED <<items, log>>

RecursiveNext ==
  \/ invokeRecImmediate
  \/ \E k \in 1..MaxSteps :
       \/ actionCallback(k)
       \/ actionCallbackSchedule(k)
       \/ actionCallbackStore(k)
       \/ actionCallbackAdd(k)
       \/ schedulerCallback(k)
       \/ run(k)
       \/ stepReturn(k)
  \/ groupDispose

RecursiveSpec == RecursiveInit /\ [][RecursiveNext]_vars

(***************************************************************************)
(* Properties of the virtual-time scheduler.                               *)
(***************************************************************************)
dueOf(i) == items[i].dueTime

Invoked == Len(log') > Len(log)

JustInvoked == log'[Len(log')]

C3_ClockNeverDecreases == [][clock' >= clock]_vars

C3_Witness == clock > 0 /\ fault = "sleep" /\ log # <<>>

\* C4: advanceTo(t) with t earlier than the clock (directly or as
\* advanceBy of a negative span) raises and changes neither the clock, the
\* enabled flag nor the queue, and invokes nothing.
C4_BackwardAdvanceFaults ==
  [][(\/ \E t \in Times : t < clock /\ advanceTo(t)
      \/ \E d \in Spans : d < 0 /\ advanceBy(d))
     => /\ fault' = "advanceTo"
        /\ pc' # "loop" /\ pc' # "action"
        /\ UNCHANGED <<clock, isEnabled, queue, items, disposed, log>>]_vars

C4_Witness == fault = "advanceTo" /\ clock > 0 /\ queue # <<>> /\ ~isEnabled

(***************************************************************************)
(* Properties of the queue-backed schedulers.                              *)
(***************************************************************************)
\* C2: two pending items with equal due time are invoked in the order in
\* which they were enqueued (items are numbered in the order of enqueueing).
C2_EqualDueInArrivalOrder ==
  \A j, k \in 1..Len(log) :
     (j < k /\ dueOf(log[j].item) = dueOf(log[k].item)) => log[j].item < log[k].item

\* C5: an item whose token was disposed before its action is invoked is
\* never invoked, be it still queued or already dequeued and waiting for its
\* due time; disposing again changes nothing.
C5_DisposedNeverInvoked ==
  /\ [][Invoked => ~isCancelled(disposed, JustInvoked.item)]_vars
  /\ [][\A i \in disposed : i \in disposed']_vars

WasInvoked(i) == \E k \in 1..Len(log) : log[k].item = i

\* the trampoline has slept up to the due time of an item disposed
\* meanwhile, and has gone on without invoking it
C5_Witness ==
  /\ sched = "CurrentThread" /\ pc = "run"
  /\ cur # None /\ isCancelled(disposed, cur) /\ ~WasInvoked(cur)
  /\ now = dueOf(cur) /\ \A k \in 1..Len(log) : log[k].clock < now

C7_HandledSwallowedUnhandledPropagates ==
  \A r \in results :
     /\ r.raised # "none" =>
          /\ r.asked = r.raised
          /\ handler[r.raised] => (r.escaped = "none" /\ r.token = "empty")
          /\ ~handler[r.raised] => (r.escaped = r.raised /\ r.token = "none")
     /\ r.raised = "none" =>
          (r.asked = "none" /\ r.escaped = "none" /\ r.token = "action")

\* one handler has swallowed a fault and let another pass
C7_Witness ==
  /\ sched = "Catch"
  /\ \E r \in results : r.raised # "none" /\ handler[r.raised] /\ r.token = "empty"
  /\ \E r \in results : r.raised # "none" /\ ~handler[r.raised] /\ r.escaped = r.raised

\* C8: over the lifetime of one CatchScheduler no second wrapper is made
\* for an inner scheduler seen before, and every call with the same inner
\* scheduler is handed the same wrapper.
C8_OneWrapperPerInnerScheduler ==
  /\ \A i, j \in 1..Len(wrappers) :
        wrappers[i].scheduler = wrappers[j].scheduler => i = j
  /\ \A q, r \in results : q.self = r.self => q.given = r.given

(***************************************************************************)
(* Properties of the periodic schedules.                                   *)
(***************************************************************************)
HandledFault(t) == t.catch /\ t.raised # "none" /\ handler[t.raised]

\* C9: under CatchScheduler.schedulePeriodicWithState, once a tick's action
\* has raised a fault the handler handles, the failed flag is set, the
\* periodic token is disposed and no later tick invokes the action.
C9_HandledFaultStopsPeriodic ==
  /\ [](\A p \in 1..Len(timers) :
          HandledFault(timers[p]) => (timers[p].failed /\ timers[p].dDisposed))
  /\ [][\A p \in 1..Len(timers) :
          HandledFault(timers[p]) => timers'[p].invoked = timers[p].invoked]_vars

C12_NormalizeClamps ==
  ret # <<>> =>
     /\ timeSpan0 < 0 => ret[1] = 0
     /\ timeSpan0 >= 0 => ret[1] = timeSpan0

\* normalize(-5) has returned
C12_Witness == sched = "normalize" /\ ret # <<>> /\ timeSpan0 = -5

(***************************************************************************)
(* Properties of the relative schedule calls.                              *)
(***************************************************************************)
\* C13: no scheduler honours a negative delay: whatever the duration of a
\* relative schedule call, the item it enqueues is due no earlier than the
\* scheduler's current time at the moment of the call.
C13_NoNegativeDelay ==
  [][(\E d \in Spans : scheduleRelativeWithState(d) \/ scheduleWithRelativeAndState(d))
        => ~items'[Len(items')].behind]_vars

(***************************************************************************)
(* Properties of advanceTo, advanceBy and the bounded run.                 *)
(***************************************************************************)
\* C18 as stated: for every t not earlier than the clock, t equal to the
\* clock included, advanceTo(t) does what start(t) does.  Stated for the
\* calls made while an item due by t is waiting.
C18_AdvanceToIsStart ==
  [][\A t \in Times :
        (/\ advanceTo(t) /\ clock <= t
         /\ \E k \in 1..Len(queue) : dueOf(queue[k]) <= t /\ queue[k] \notin disposed)
        => startBody(TRUE, t)]_vars

\* C18, amended: for every t later than the clock advanceTo(t) does what
\* start(t) does (a bounded run up to t begins, or nothing happens when a
\* run is in progress); advanceTo(t) with t equal to the clock returns at
\* once, no run begins and nothing is invoked.  advanceBy(d) is
\* advanceTo(clock + d): the times it passes on are among the t.  A step
\* counts as advanceTo(t) when it has the effect of its body.
C18_AdvanceToIsStartWhenLater ==
  [][(/\ CanCall /\ clock' = clock /\ Len(items') = Len(items)
      /\ UNCHANGED <<log, disposed, queue, items>>) =>
       \A t \in Times \cup {add(clock, d) : d \in Spans} :
          advanceToBody(t) =>
            /\ (clock < t /\ ~isEnabled) =>
                  /\ isEnabled' /\ pc' = "loop" /\ fault' = "none"
                  /\ frames' = Append(frames, [bounded |-> TRUE, until |-> t])
            /\ (clock < t /\ isEnabled) =>
                  (fault' = "none" /\ UNCHANGED <<isEnabled, frames, pc>>)
            /\ clock = t =>
                  (fault' = "none" /\ UNCHANGED <<isEnabled, frames, pc>>)]_vars

\* a bounded run up to a time later than the clock has begun, with an item
\* waiting that is due within it
C18_Witness ==
  /\ sched = "VirtualTime" /\ pc = "loop" /\ isEnabled /\ fault = "none"
  /\ Len(frames) = 1 /\ frames[1].bounded /\ frames[1].until > clock
  /\ log = <<>>
  /\ \E k \in 1..Len(queue) : dueOf(queue[k]) <= frames[1].until /\ queue[k] \notin disposed

\* C19: a bounded run loses no work: the item whose due time stops
\* start(until) or advanceTo(until) is not invoked by that call and is
\* still in the queue afterwards, so every item that was neither invoked
\* nor cancelled is pending.
C19_BoundedRunLosesNoWork ==
  \A i \in 1..Len(items) :
     (~isCancelled(disposed, i) /\ ~WasInvoked(i)) => \E k \in 1..Len(queue) : queue[k] = i

\* C21: start() without a bound terminates normally once no non-cancelled
\* item remains: the turn of its loop that finds none left raises nothing,
\* leaves the queue empty and sets the enabled flag false, so that the
\* loop ends and a later start() can run again.
C21_UnboundedStartEndsNormally ==
  [][(/\ sched = "VirtualTime" /\ pc = "loop" /\ isEnabled
      /\ ~frames[Len(frames)].bounded
      /\ \A k \in 1..Len(queue) : isCancelled(disposed, queue[k]))
     => (fault' = "none" /\ ~isEnabled' /\ queue' = <<>>)]_vars

\* C16: a PeriodicTimer re-arms itself after each firing: once the action
\* of a firing has returned, with the schedule not cancelled and the
\* action not faulted, the timer is armed for the next interval (or that
\* next firing is already under way), so the action is invoked again.
C16_RearmsAfterEachFiring ==
  \A p \in 1..Len(timers) :
     (/\ timers[p].invoked >= 1 /\ timers[p].inflight = 0
      /\ timers[p].raised = "none" /\ ~timers[p].timerDisposed)
     => timers[p].phase \in {"armed", "fired", "executing"}

\* C17: the scheduler handed to every wrapped action is a CatchScheduler
\* with the same handler that wraps the inner scheduler which ran the
\* action, and a fault the handler answers true to never escapes.
C17_RecoveryFollowsTheChain ==
  \A r \in results :
     /\ r.given \in 1..Len(wrappers)
     /\ wrappers[r.given].handler = handler
     /\ wrappers[r.given].scheduler = r.self
     /\ (r.raised # "none" /\ handler[r.raised]) => r.escaped = "none"

(***************************************************************************)
(* Properties of the ImmediateScheduler.                                   *)
(***************************************************************************)
\* C15: work scheduled through the nested scheduler of an action is
\* serialized by the gate: unless cancelled or still waiting behind the
\* gate it has been invoked, exactly once, and the work scheduled through
\* one nested scheduler is invoked in the order of the schedule calls.
C15_NestedWorkRunsOnceInOrder ==
  /\ \A i \in 1..Len(items) :
        (/\ items[i].by # None /\ ~isCancelled(disposed, i)
         /\ \A k \in 1..Len(queue) : queue[k] # i)
        => Cardinality({k \in 1..Len(log) : log[k].item = i}) = 1
  /\ \A j, k \in 1..Len(log) :
        (j < k /\ items[log[j].item].by # None
               /\ items[log[j].item].by = items[log[k].item].by)
        => log[j].item < log[k].item

(***************************************************************************)
(* Properties of the DefaultScheduler.                                     *)
(***************************************************************************)
\* C14: an action scheduled with a positive relative delay is invoked after
\* the delay unless its token is disposed first: as long as it has neither
\* been invoked nor disposed, a started timer is on its way to invoke it;
\* and an action whose token was disposed before it began is not invoked.
C14_DelayedActionHasRunningTimer ==
  /\ \A i \in 1..Len(items) :
        (/\ items[i].timer # "pool"
         /\ ~isCancelled(disposed, i) /\ ~WasInvoked(i))
        => items[i].timer = "started"
  /\ \A i \in 1..Len(items) :
        (items[i].timer # "pool" /\ isCancelled(disposed, i)) => ~WasInvoked(i)

(***************************************************************************)
(* Properties of the recursive-scheduling coordinator.                     *)
(***************************************************************************)
\* the steps form a chain: no step has called its continuation twice
IsChain ==
  \A m \in 1..Len(items), n \in 1..Len(items) :
     (items[m].by # None /\ items[m].by = items[n].by) => m = n

\* C11: once the shared group is disposed, a step of a chain that has not
\* started executing and whose scheduling step has completed never starts,
\* so it never invokes the action, whatever the interleaving of
\* actionCallback and schedulerCallback was.
C11_DisposedGroupStopsNextStep ==
  [][\A m \in 1..Len(items) :
        (/\ items # <<>> /\ scheduled.isDisposed /\ IsChain
         /\ items[m].phase = "pending"
         /\ items[m].by # None /\ items[items[m].by].phase = "done")
        => items'[m].phase = "pending"]_vars

\* C20: whenever no registration is in progress, the shared group holds
\* exactly the tokens of the steps scheduled and not started, also when a
\* step calls its continuation more than once.
C20_GroupHoldsExactlyThePending ==
  (/\ items # <<>> /\ ~scheduled.isDisposed
   /\ \A k \in 1..Len(items) : items[k].at = "out")
  => scheduled.group = {m \in 1..Len(items) : items[m].phase = "pending"}

=============================================================================
